---------------------------- MODULE Spec2Model ----------------------------
(***************************************************************************)
(* Model of signal-watch's indicator and signal-voting engine              *)
(* (src/signal_watch/indicators.py, src/signal_watch/signals.py), of the   *)
(* watchlist (storage.py), of fetch (data.py) and of the overview of the   *)
(* watchlist (app.py).                                                     *)
(*                                                                         *)
(* Numbers.  The code computes on float64 values, of which the model keeps *)
(* three kinds: not-a-number, +/- infinity and the finite values, the      *)
(* latter as exact fractions n/d in lowest terms.  Every ordering          *)
(* comparison with not-a-number is false, as in IEEE 754.  Rolling         *)
(* standard deviations are square roots; a Bollinger band is kept as       *)
(* a + s*sqrt(v) with a, v fractions, and compared exactly.                *)
(*                                                                         *)
(* Indices.  idx and every bar position are Python's 0-based positions;    *)
(* a column is a TLA+ sequence, so bar i of a column c is c[i + 1].        *)
(***************************************************************************)
EXTENDS Integers, Sequences, FiniteSets, TLC

\***************************************************************************
\* float64 values
\***************************************************************************
Abs(x) == IF x < 0 THEN -x ELSE x

Sgn(x) == IF x < 0 THEN -1 ELSE 1

RECURSIVE GCD(_, _)
GCD(a, b) == IF b = 0 THEN a ELSE GCD(b, a % b)

LCM(a, b) == (a \div GCD(a, b)) * b

NaN == [k |-> "nan", n |-> 0, d |-> 1]

Inf(sign) == [k |-> "inf", n |-> sign, d |-> 1]

\* The fraction n/d (d > 0) in lowest terms.
Rat(n, d) ==
    LET g == GCD(Abs(n), d)
    IN  [k |-> "fin", n |-> n \div g, d |-> d \div g]

Num(i) == Rat(i, 1)

IsNaN(a) == a.k = "nan"

IsZero(a) == a.k = "fin" /\ a.n = 0

FNeg(a) == IF a.k = "nan" THEN NaN ELSE [a EXCEPT !.n = -a.n]

FAdd(a, b) ==
    IF a.k = "nan" \/ b.k = "nan" THEN NaN
    ELSE IF a.k = "inf" THEN (IF b.k = "inf" /\ b.n # a.n THEN NaN ELSE a)
    ELSE IF b.k = "inf" THEN b
    ELSE LET L == LCM(a.d, b.d)
         IN  Rat(a.n * (L \div a.d) + b.n * (L \div b.d), L)

FSub(a, b) == FAdd(a, FNeg(b))

FMul(a, b) ==
    IF a.k = "nan" \/ b.k = "nan" THEN NaN
    ELSE IF a.k = "inf" \/ b.k = "inf"
         THEN (IF a.n = 0 \/ b.n = 0 THEN NaN ELSE Inf(Sgn(a.n) * Sgn(b.n)))
    ELSE LET g1 == GCD(Abs(a.n), b.d)
             g2 == GCD(Abs(b.n), a.d)
         IN  Rat((a.n \div g1) * (b.n \div g2), (a.d \div g2) * (b.d \div g1))

\* IEEE division: x/0 is an infinity for x # 0 and not-a-number for x = 0.
FDiv(a, b) ==
    IF a.k = "nan" \/ b.k = "nan" THEN NaN
    ELSE IF b.k = "inf" THEN (IF a.k = "inf" THEN NaN ELSE Num(0))
    ELSE IF a.k = "inf" THEN Inf(Sgn(a.n) * Sgn(b.n))
    ELSE IF b.n = 0 THEN (IF a.n = 0 THEN NaN ELSE Inf(Sgn(a.n)))
    ELSE FMul(a, Rat(Sgn(b.n) * b.d, Abs(b.n)))

\* a < b on floats: false as soon as one side is not-a-number.
FLt(a, b) ==
    /\ a.k # "nan"
    /\ b.k # "nan"
    /\ IF a.k = "inf" THEN a.n < 0 /\ ~(b.k = "inf" /\ b.n < 0)
       ELSE IF b.k = "inf" THEN b.n > 0
       ELSE LET L == LCM(a.d, b.d)
            IN  a.n * (L \div a.d) < b.n * (L \div b.d)

FGt(a, b) == FLt(b, a)

FLe(a, b) == a.k # "nan" /\ b.k # "nan" /\ ~FLt(b, a)

FGe(a, b) == FLe(b, a)

\* A band value a + s*sqrt(v), s in {-1, 1}, v >= 0; Plain(x) is x itself.
BandNaN == [k |-> "nan", a |-> NaN, v |-> NaN, s |-> 1]

Band(a, v, s) ==
    IF a.k # "fin" \/ v.k # "fin" THEN BandNaN
    ELSE [k |-> "fin", a |-> a, v |-> v, s |-> s]

Plain(x) == Band(x, Num(0), 1)

\* The sign of c - (a + s*sqrt(v)), exactly, for finite c: with e = c - a,
\* e against sqrt(v) is negative for e < 0 and else e*e against v; e against
\* -sqrt(v) is positive for e > 0 and else v against e*e.
CmpBand(c, b) ==
    LET e == FSub(c, b.a)
        ee == FMul(e, e)
        sq == IF FLt(ee, b.v) THEN -1 ELSE IF FGt(ee, b.v) THEN 1 ELSE 0
    IN  IF b.s > 0 THEN (IF e.n < 0 THEN -1 ELSE sq)
        ELSE (IF e.n > 0 THEN 1 ELSE -sq)

\* Ordering comparisons of a price with a band value, false as soon as one
\* side is not-a-number.
Comparable(c, b) == c.k = "fin" /\ b.k = "fin"

LtBandOrEqual(c, b) == Comparable(c, b) /\ CmpBand(c, b) <= 0

LtBand(c, b) == Comparable(c, b) /\ CmpBand(c, b) < 0

GtBand(c, b) == Comparable(c, b) /\ CmpBand(c, b) > 0

LeBand(c, b) == Comparable(c, b) /\ CmpBand(c, b) <= 0

GeBand(c, b) == Comparable(c, b) /\ CmpBand(c, b) >= 0

\***************************************************************************
\* pandas Series operations used by indicators.py (a Series is a sequence)
\***************************************************************************
RECURSIVE EwmFrom(_, _, _, _)
\* The values of ewm(alpha, adjust=False).mean() from position i on, prev
\* being the average so far: not-a-number until the first observation, which
\* seeds the average; then y = (1 - alpha)*prev + alpha*x.  A not-a-number
\* observation after the seed leaves the average as it is.
EwmFrom(series, alpha, i, prev) ==
    IF i > Len(series) THEN << >>
    ELSE LET x == series[i]
             y == IF IsNaN(prev) THEN x
                  ELSE IF IsNaN(x) THEN prev
                  ELSE FAdd(FMul(FSub(Num(1), alpha), prev), FMul(alpha, x))
         IN  <<y>> \o EwmFrom(series, alpha, i + 1, y)

Ewm(series, alpha) == EwmFrom(series, alpha, 1, NaN)

\* A Series given bar by bar, as a sequence.
Series(f) == SubSeq(f, 1, Len(f))

SeriesSub(a, b) == Series([i \in 1..Len(a) |-> FSub(a[i], b[i])])

SeriesNeg(a) == Series([i \in 1..Len(a) |-> FNeg(a[i])])

Diff(s) ==
    Series([i \in 1..Len(s) |-> IF i = 1 THEN NaN ELSE FSub(s[i], s[i - 1])])

Shift1(s) == Series([i \in 1..Len(s) |-> IF i = 1 THEN NaN ELSE s[i - 1]])

ClipLower0(s) ==
    Series([i \in 1..Len(s) |-> IF FLt(s[i], Num(0)) THEN Num(0) ELSE s[i]])

ClipUpper0(s) ==
    Series([i \in 1..Len(s) |-> IF FGt(s[i], Num(0)) THEN Num(0) ELSE s[i]])

Replace0NaN(s) ==
    Series([i \in 1..Len(s) |-> IF IsZero(s[i]) THEN NaN ELSE s[i]])

RECURSIVE SumRange(_, _, _)
SumRange(s, lo, hi) ==
    IF lo > hi THEN Num(0) ELSE FAdd(s[lo], SumRange(s, lo + 1, hi))

\* The last position of the window of rolling(n) at position i; the window
\* is the n positions ending there.
WindowLastAhead(i) == i + 1

WindowLast(i) == i

WindowFirst(i, n) == WindowLast(i) - n + 1

\* rolling(n): a value needs n observations, none of them not-a-number.
WindowFull(s, i, n) ==
    /\ WindowFirst(i, n) >= 1
    /\ WindowLast(i) <= Len(s)
    /\ \A j \in WindowFirst(i, n)..WindowLast(i) : ~IsNaN(s[j])

WindowMean(s, i, n) ==
    FDiv(SumRange(s, WindowFirst(i, n), WindowLast(i)), Num(n))

RollingMean(s, n) ==
    Series([i \in 1..Len(s) |->
               IF WindowFull(s, i, n) THEN WindowMean(s, i, n) ELSE NaN])

\* The squared deviations of s from m.
SqDev(s, m) ==
    Series([j \in 1..Len(s) |-> FMul(FSub(s[j], m), FSub(s[j], m))])

\* rolling(n).std(ddof=0) squared: the mean squared deviation from the
\* window's mean (denominator n).
RollingVar(s, n) ==
    Series([i \in 1..Len(s) |->
               IF WindowFull(s, i, n)
               THEN WindowMean(SqDev(s, WindowMean(s, i, n)), i, n)
               ELSE NaN])

\***************************************************************************
\* indicators.py
\***************************************************************************
ema(series, span) == Ewm(series, Rat(2, span + 1))

macd(close, fast, slow, signal) ==
    LET macd_line == SeriesSub(ema(close, fast), ema(close, slow))
        signal_line == ema(macd_line, signal)
        hist == SeriesSub(macd_line, signal_line)
    IN  [macd_line |-> macd_line, signal_line |-> signal_line, hist |-> hist]

\* The smoothed average gain and loss of rsi (lines 69-77).
rsi_avg(close, period) ==
    LET delta == Diff(close)
        gain == ClipLower0(delta)
        loss == SeriesNeg(ClipUpper0(delta))
    IN  [gain |-> Ewm(Shift1(RollingMean(gain, period)), Rat(1, period)),
         loss |-> Ewm(Shift1(RollingMean(loss, period)), Rat(1, period))]

\* rs = avg_gain / avg_loss.replace(0, nan)
rsi_rs_unguarded(avg) ==
    Series([i \in 1..Len(avg.gain) |-> FDiv(avg.gain[i], avg.loss[i])])

rsi_rs(avg) ==
    LET den == Replace0NaN(avg.loss)
    IN  Series([i \in 1..Len(avg.gain) |-> FDiv(avg.gain[i], den[i])])

rsi(close, period) ==
    LET rs == rsi_rs(rsi_avg(close, period))
    IN  Series([i \in 1..Len(close) |->
                   FSub(Num(100), FDiv(Num(100), FAdd(Num(1), rs[i])))])

\* upper = mid + n_std*std and lower = mid - n_std*std, std being the square
\* root of RollingVar: mid +/- sqrt(n_std^2 * var).
bollinger(close, n, n_std) ==
    LET mid == RollingMean(close, n)
        var == RollingVar(close, n)
        dev == Series([i \in 1..Len(close) |->
                          FMul(Num(n_std * n_std), var[i])])
    IN  [upper |-> Series([i \in 1..Len(close) |-> Band(mid[i], dev[i], 1)]),
         mid |-> mid,
         lower |-> Series([i \in 1..Len(close) |->
                              Band(mid[i], dev[i], -1)])]

\***************************************************************************
\* DataFrames: an index of timestamp keys and named columns of equal length
\***************************************************************************
Rows(df) == Len(df.index)

\* A test of the columns alone.
DfEmptyNoColumns(df) == DOMAIN df.cols = {}

\* DataFrame.empty: no rows or no columns.
DfEmpty(df) == Rows(df) = 0 \/ DOMAIN df.cols = {}

\* What reading df[col].iloc[i] raises, "none" when it succeeds: KeyError for
\* a column the frame has not, IndexError for a position out of bounds.
ReadErr(df, col, i) ==
    IF col \notin DOMAIN df.cols THEN "KeyError"
    ELSE IF i >= Rows(df) \/ i < -Rows(df) THEN "IndexError"
    ELSE "none"

\* df[col].iloc[i]; a negative position counts from the end.
Iloc(df, col, i) == df.cols[col][IF i < 0 THEN Rows(df) + i + 1 ELSE i + 1]

RECURSIVE FirstErr(_, _, _)
\* The error of the first failing read of reads[j..], in reading order.
FirstErr(df, reads, j) ==
    IF j > Len(reads) THEN "none"
    ELSE LET e == ReadErr(df, reads[j][1], reads[j][2])
         IN  IF e # "none" THEN e ELSE FirstErr(df, reads, j + 1)

Errors == {"KeyError", "IndexError", "ValueError"}

\* The parameters attach_indicators leaves at their defaults: macd's
\* (fast, slow, signal), rsi's period, bollinger's (n, n_std).
Defaults ==
    [fast |-> 12, slow |-> 26, signal |-> 9, period |-> 14, n |-> 20,
     n_std |-> 2]

\* A frame of the indicator columns alone.
attach_indicators_only(df, price_col, par) ==
    LET close == df.cols[price_col]
        m == macd(close, par.fast, par.slow, par.signal)
        bb == bollinger(close, par.n, par.n_std)
        added == [MACD |-> m.macd_line, MACD_SIGNAL |-> m.signal_line,
                  MACD_HIST |-> m.hist, RSI |-> rsi(close, par.period),
                  BB_UPPER |-> bb.upper, BB_MID |-> bb.mid,
                  BB_LOWER |-> bb.lower]
    IN  [df EXCEPT !.cols = added]

\* attach_indicators with the indicator parameters par: the frame itself,
\* with the seven indicator columns added (or replaced).
attach_indicators(df, price_col, par) ==
    LET close == df.cols[price_col]
        m == macd(close, par.fast, par.slow, par.signal)
        bb == bollinger(close, par.n, par.n_std)
        added == [MACD |-> m.macd_line, MACD_SIGNAL |-> m.signal_line,
                  MACD_HIST |-> m.hist, RSI |-> rsi(close, par.period),
                  BB_UPPER |-> bb.upper, BB_MID |-> bb.mid,
                  BB_LOWER |-> bb.lower]
    IN  [df EXCEPT !.cols = added @@ df.cols]

\***************************************************************************
\* signals.py
\***************************************************************************
BUY == "buy"

SELL == "sell"

HOLD == "hold"

State == {BUY, SELL, HOLD}

\* A cross up that needs a strictly lower previous value.
crossed_up_strict(prev_a, curr_a, prev_b, curr_b) ==
    FLt(prev_a, prev_b) /\ FGt(curr_a, curr_b)

crossed_up(prev_a, curr_a, prev_b, curr_b) ==
    FLe(prev_a, prev_b) /\ FGt(curr_a, curr_b)

\* A cross down that needs a strictly higher previous value.
crossed_down_strict(prev_a, curr_a, prev_b, curr_b) ==
    FGt(prev_a, prev_b) /\ FLt(curr_a, curr_b)

crossed_down(prev_a, curr_a, prev_b, curr_b) ==
    FGe(prev_a, prev_b) /\ FLt(curr_a, curr_b)

\* Bar 0 has no predecessor (the test idx <= 0 of the three classifiers).
AtFirstBarOnlyBefore(idx) == idx < 0

AtFirstBar(idx) == idx <= 0

macd_state(df, idx) ==
    IF AtFirstBar(idx) THEN HOLD
    ELSE LET p == idx - 1
             err == FirstErr(df, << <<"MACD", p>>, <<"MACD", idx>>,
                                    <<"MACD_SIGNAL", p>>,
                                    <<"MACD_SIGNAL", idx>> >>, 1)
         IN  IF err # "none" THEN err
             ELSE IF crossed_up(Iloc(df, "MACD", p), Iloc(df, "MACD", idx),
                                Iloc(df, "MACD_SIGNAL", p),
                                Iloc(df, "MACD_SIGNAL", idx))
                  THEN BUY
             ELSE IF crossed_down(Iloc(df, "MACD", p), Iloc(df, "MACD", idx),
                                  Iloc(df, "MACD_SIGNAL", p),
                                  Iloc(df, "MACD_SIGNAL", idx))
                  THEN SELL
             ELSE HOLD

\* A classifier of the crossings of 30 and 70 alone.
rsi_state_extremes(df, idx) ==
    IF AtFirstBar(idx) THEN HOLD
    ELSE LET p == idx - 1
             err == FirstErr(df, << <<"RSI", p>>, <<"RSI", idx>> >>, 1)
             rsi_prev == Iloc(df, "RSI", p)
             rsi_now == Iloc(df, "RSI", idx)
         IN  IF err # "none" THEN err
             ELSE IF crossed_up(rsi_prev, rsi_now, Num(30), Num(30)) THEN BUY
             ELSE IF crossed_down(rsi_prev, rsi_now, Num(70), Num(70))
                  THEN SELL
             ELSE HOLD

rsi_state(df, idx) ==
    IF AtFirstBar(idx) THEN HOLD
    ELSE LET p == idx - 1
             err == FirstErr(df, << <<"RSI", p>>, <<"RSI", idx>> >>, 1)
             rsi_prev == Iloc(df, "RSI", p)
             rsi_now == Iloc(df, "RSI", idx)
         IN  IF err # "none" THEN err
             ELSE IF \/ crossed_up(rsi_prev, rsi_now, Num(30), Num(30))
                     \/ crossed_up(rsi_prev, rsi_now, Num(50), Num(50))
                  THEN BUY
             ELSE IF \/ crossed_down(rsi_prev, rsi_now, Num(70), Num(70))
                     \/ crossed_down(rsi_prev, rsi_now, Num(50), Num(50))
                  THEN SELL
             ELSE HOLD

\* A classifier that reads the raw close whatever price column is named.
bb_state_of_close(df, idx, price_col) ==
    IF AtFirstBar(idx) THEN HOLD
    ELSE LET p == idx - 1
             err == FirstErr(df, << <<"Close", p>>, <<"Close", idx>>,
                                    <<"BB_UPPER", p>>, <<"BB_LOWER", p>>,
                                    <<"BB_UPPER", idx>>,
                                    <<"BB_LOWER", idx>> >>, 1)
             c_prev == Iloc(df, "Close", p)
             c_curr == Iloc(df, "Close", idx)
             upper_prev == Iloc(df, "BB_UPPER", p)
             lower_prev == Iloc(df, "BB_LOWER", p)
             upper_curr == Iloc(df, "BB_UPPER", idx)
             lower_curr == Iloc(df, "BB_LOWER", idx)
         IN  IF err # "none" THEN err
             ELSE IF /\ LtBand(c_prev, lower_prev)
                     /\ GeBand(c_curr, lower_curr)
                     /\ LeBand(c_curr, upper_curr)
                  THEN BUY
             ELSE IF /\ GtBand(c_prev, upper_prev)
                     /\ GeBand(c_curr, lower_curr)
                     /\ LeBand(c_curr, upper_curr)
                  THEN SELL
             ELSE HOLD

bb_state(df, idx, price_col) ==
    IF AtFirstBar(idx) THEN HOLD
    ELSE LET p == idx - 1
             err == FirstErr(df, << <<price_col, p>>, <<price_col, idx>>,
                                    <<"BB_UPPER", p>>, <<"BB_LOWER", p>>,
                                    <<"BB_UPPER", idx>>,
                                    <<"BB_LOWER", idx>> >>, 1)
             c_prev == Iloc(df, price_col, p)
             c_curr == Iloc(df, price_col, idx)
             upper_prev == Iloc(df, "BB_UPPER", p)
             lower_prev == Iloc(df, "BB_LOWER", p)
             upper_curr == Iloc(df, "BB_UPPER", idx)
             lower_curr == Iloc(df, "BB_LOWER", idx)
         IN  IF err # "none" THEN err
             ELSE IF /\ LtBand(c_prev, lower_prev)
                     /\ GeBand(c_curr, lower_curr)
                     /\ LeBand(c_curr, upper_curr)
                  THEN BUY
             ELSE IF /\ GtBand(c_prev, upper_prev)
                     /\ GeBand(c_curr, lower_curr)
                     /\ LeBand(c_curr, upper_curr)
                  THEN SELL
             ELSE HOLD

RECURSIVE AgeScanNoBreak(_, _, _, _)
\* The loop without its break: every earlier bar of the same state counts.
AgeScanNoBreak(series_states, current, j, age) ==
    IF j < 0 THEN age
    ELSE AgeScanNoBreak(series_states, current, j - 1,
                        IF series_states[j + 1] # current THEN age
                        ELSE age + 1)

RECURSIVE AgeScan(_, _, _, _)
\* The loop of signal_age: j runs from idx - 1 down to 0 and stops at the
\* first state that differs from current.
AgeScan(series_states, current, j, age) ==
    IF j < 0 THEN age
    ELSE IF series_states[j + 1] # current THEN age
    ELSE AgeScan(series_states, current, j - 1, age + 1)

signal_age(series_states, idx) ==
    IF idx < 0 THEN 0
    ELSE IF idx >= Len(series_states) THEN "IndexError"
    ELSE AgeScan(series_states, series_states[idx + 1], idx - 1, 0)

\* A vote by plurality instead of by two votes out of three.
majority_plurality(macd_s, rsi_s, bb_s) ==
    LET votes == <<macd_s, rsi_s, bb_s>>
        buys == Cardinality({v \in 1..3 : votes[v] = BUY})
        sells == Cardinality({v \in 1..3 : votes[v] = SELL})
    IN  IF buys > sells THEN BUY
        ELSE IF sells > buys THEN SELL
        ELSE HOLD

majority(macd_s, rsi_s, bb_s) ==
    LET votes == <<macd_s, rsi_s, bb_s>>
        buys == Cardinality({v \in 1..3 : votes[v] = BUY})
        sells == Cardinality({v \in 1..3 : votes[v] = SELL})
    IN  IF buys >= 2 THEN BUY
        ELSE IF sells >= 2 THEN SELL
        ELSE HOLD

\* A session state without keys, and no overview being rendered.
NoKeys == [k \in {} |-> << >>]

Idle == [pc |-> "idle"]

\* An exception leaving a call, and a call that has not happened.
Raise(e) == [kind |-> "raise", error |-> e]

NoCall == [kind |-> "none"]

\* The bar latest_snapshot evaluates.
SnapshotIdxPrev(df) == Rows(df) - 2

SnapshotIdx(df) == Rows(df) - 1

latest_snapshot(df, price_col) ==
    IF DfEmpty(df) THEN Raise("ValueError")
    ELSE LET idx == SnapshotIdx(df)
             macd_s == macd_state(df, idx)
             rsi_s == rsi_state(df, idx)
             bb_s == bb_state(df, idx, price_col)
         IN  IF macd_s \in Errors THEN Raise(macd_s)
             ELSE IF rsi_s \in Errors THEN Raise(rsi_s)
             ELSE IF bb_s \in Errors THEN Raise(bb_s)
             ELSE IF idx + 1 \notin DOMAIN df.index THEN Raise("IndexError")
             ELSE [kind |-> "return", macd |-> macd_s, rsi |-> rsi_s,
                   bb |-> bb_s, majority |-> majority(macd_s, rsi_s, bb_s),
                   index |-> df.index[idx + 1]]

\***************************************************************************
\* State: one evaluation of a symbol, as compute_snapshot runs it (the frame
\* fetched, attach_indicators, latest_snapshot), and the direct calls of the
\* engine's functions.
\***************************************************************************
VARIABLES
    par,    \* the price feed and the indicator parameters of this run
    df,     \* the caller's DataFrame
    snap,   \* the outcome of latest_snapshot on df, NoCall before the call
    call,   \* the last direct call of a function of signals.py
    session_state,  \* Streamlit's session state: keys and their values
    overview        \* the run of display_watchlist_overview in progress

vars == <<par, df, snap, call, session_state, overview>>

\* Bounds of the exploration.
MaxBars == 8

MaxPeriod == 2

MaxConstBars == 22

MaxStates == 5

Prices == {1, 2}

ConstPrices == {1, 5, 10}

\* The scenario of the specification's section 8.
Scenario == <<10, 10, 10, 10, 9, 8, 11, 12>>

\* Short EMA spans (fast, slow, signal) whose smoothing factors 2/(span+1)
\* are 1, 1/2 or 1/4, so that the float arithmetic of the code is exact.
ShortSpans == {<<1, 3, 3>>, <<3, 7, 3>>, <<1, 7, 3>>, <<1, 3, 7>>}

\* Windows short enough for every signal to occur within MaxBars bars; a
\* close leaves a 2-sigma band only in a window of at least 6 bars.
Small(feed, spans, period) ==
    [feed |-> feed, fast |-> spans[1], slow |-> spans[2],
     signal |-> spans[3], period |-> period, n |-> 6, n_std |-> 2]

Configs ==
    {Small("free", <<1, 3, 3>>, period) : period \in 1..MaxPeriod}
    \cup {Small("scenario", spans, 2) : spans \in ShortSpans}
    \cup {[feed |-> "constant"] @@ Defaults}

price_col == "Close"

\* The timestamp key of bar i of a fetched frame: strictly increasing.
TimeOf(i) == 1000 + 60 * i

\* The frame fetch returns for the prices: the price column and its copy
\* "PriceCol".
Fetched(prices) ==
    [index |-> Series([i \in 1..Len(prices) |-> TimeOf(i - 1)]),
     cols |-> [c \in {"Close", "PriceCol"} |->
                  Series([i \in 1..Len(prices) |-> Num(prices[i])])]]

Attached == "MACD" \in DOMAIN df.cols

\* The prices of the frame, as integers.
ClosePrices == Series([i \in 1..Rows(df) |-> df.cols[price_col][i].n])

\* The feed may deliver p as the next bar.
NextBar(p) ==
    LET len == Rows(df)
    IN  \/ par.feed = "free" /\ len < MaxBars /\ p \in Prices
        \/ par.feed = "scenario" /\ len < Len(Scenario)
                                 /\ p = Scenario[len + 1]
        \/ par.feed = "constant" /\ len < MaxConstBars /\ p \in ConstPrices
                                 /\ (len > 0 => p = ClosePrices[1])

AllPrices == Prices \cup ConstPrices \cup {Scenario[i] : i \in DOMAIN Scenario}

Init ==
    /\ par \in Configs
    /\ df = Fetched(<< >>)
    /\ snap = NoCall
    /\ call = NoCall
    /\ session_state = NoKeys
    /\ overview = Idle

\* A new bar arrives and the frame is fetched again: one more bar, and no
\* indicator column.
AppendBar ==
    \E p \in AllPrices :
        /\ NextBar(p)
        /\ df' = Fetched(Append(ClosePrices, p))
        /\ snap' = NoCall
        /\ UNCHANGED <<par, call, session_state, overview>>

AttachIndicators ==
    /\ df' = attach_indicators(df, price_col, par)
    /\ snap' = NoCall
    /\ UNCHANGED <<par, call, session_state, overview>>

LatestSnapshot ==
    /\ snap' = latest_snapshot(df, price_col)
    /\ UNCHANGED <<par, df, call, session_state, overview>>

Next == AppendBar \/ AttachIndicators \/ LatestSnapshot

Spec == Init /\ [][Next]_vars

\***************************************************************************
\* Direct calls of the functions of signals.py, on arguments of the caller's
\* choice
\***************************************************************************
\* Values around the crossings each classifier looks for.
MacdVals == {NaN, Num(-1), Num(0), Rat(1, 2), Num(1)}

RsiVals ==
    {NaN, Num(0), Num(20), Num(30), Num(40), Num(50), Num(60), Num(70),
     Num(80), Num(100)}

CloseVals == {NaN, Num(1), Num(2), Num(3), Num(4), Num(5)}

LowerVals == {BandNaN, Plain(Num(2)), Plain(Num(3))}

UpperVals == {BandNaN, Plain(Num(3)), Plain(Num(4))}

\* A frame of two bars with the columns cols.
Frame2(cols) == [index |-> <<TimeOf(0), TimeOf(1)>>, cols |-> cols]

MacdFrames ==
    {Frame2([MACD |-> <<a, b>>, MACD_SIGNAL |-> <<c, d>>]) :
        a \in MacdVals, b \in MacdVals, c \in MacdVals, d \in MacdVals}

RsiFrames == {Frame2([RSI |-> <<a, b>>]) : a \in RsiVals, b \in RsiVals}

BbRows == CloseVals \X UpperVals \X LowerVals

BbFrames ==
    {Frame2([Close |-> <<r[1], t[1]>>, BB_UPPER |-> <<r[2], t[2]>>,
             BB_LOWER |-> <<r[3], t[3]>>]) : r \in BbRows, t \in BbRows}

\* Frames with two price columns of different values, between bands at 2
\* and 4.
AdjPrices == {<<Num(1), Num(3)>>, <<Num(2), Num(3)>>, <<Num(3), Num(3)>>,
              <<Num(5), Num(3)>>, <<Num(5), Num(5)>>}

BbAdjFrames ==
    {Frame2([c \in {"Close", "Adj Close", "BB_UPPER", "BB_LOWER"} |->
                IF c = "Close" THEN close
                ELSE IF c = "Adj Close" THEN adj
                ELSE IF c = "BB_UPPER" THEN <<Plain(Num(4)), Plain(Num(4))>>
                ELSE <<Plain(Num(2)), Plain(Num(2))>>]) :
        close \in AdjPrices, adj \in AdjPrices}

\* The price columns fetch may name.
PriceCols == {"Close", "Adj Close"}

\* A frame without rows and without columns.
NoFrame == [index |-> << >>, cols |-> << >>]

Frames ==
    MacdFrames \cup RsiFrames \cup BbFrames \cup BbAdjFrames \cup {NoFrame}

StateLists == UNION {[1..len -> State] : len \in 0..MaxStates}

InitCalls ==
    /\ par = [feed |-> "constant"] @@ Defaults
    /\ df = Fetched(<< >>)
    /\ snap = NoCall
    /\ call = NoCall
    /\ session_state = NoKeys
    /\ overview = Idle

CallMajority ==
    /\ call = NoCall
    /\ \E a \in State, b \in State, c \in State :
           /\ call' = [kind |-> "call", fn |-> "majority", args |-> <<a, b, c>>,
                       result |-> majority(a, b, c)]
           /\ UNCHANGED <<par, df, snap, session_state, overview>>

CallSignalAge ==
    /\ call = NoCall
    /\ \E s \in StateLists, idx \in -1..MaxStates :
           /\ idx <= Len(s)
           /\ call' = [kind |-> "call", fn |-> "signal_age",
                       args |-> <<s, idx>>,
                       result |-> signal_age(s, idx)]
           /\ UNCHANGED <<par, df, snap, session_state, overview>>

CallMacdState ==
    /\ call = NoCall
    /\ \E f \in Frames, idx \in -1..2 :
           /\ call' = [kind |-> "call", fn |-> "macd_state",
                       args |-> <<f, idx>>,
                       result |-> macd_state(f, idx)]
           /\ UNCHANGED <<par, df, snap, session_state, overview>>

CallRsiState ==
    /\ call = NoCall
    /\ \E f \in Frames, idx \in -1..2 :
           /\ call' = [kind |-> "call", fn |-> "rsi_state", args |-> <<f, idx>>,
                       result |-> rsi_state(f, idx)]
           /\ UNCHANGED <<par, df, snap, session_state, overview>>

CallBbState ==
    /\ call = NoCall
    /\ \E f \in Frames, idx \in -1..2, col \in PriceCols :
           /\ call' = [kind |-> "call", fn |-> "bb_state",
                       args |-> <<f, idx, col>>,
                       result |-> bb_state(f, idx, col)]
           /\ UNCHANGED <<par, df, snap, session_state, overview>>

\* The call returns to the caller, who may call again.
Return ==
    /\ call # NoCall
    /\ call' = NoCall
    /\ UNCHANGED <<par, df, snap, session_state, overview>>

NextCalls ==
    \/ Return
    \/ CallMajority
    \/ CallSignalAge
    \/ CallMacdState
    \/ CallRsiState
    \/ CallBbState

SpecCalls == InitCalls /\ [][NextCalls]_vars

\***************************************************************************
\* storage.py: the watchlist kept in the session state.  A symbol is a
\* string, kept as the sequence of its characters.
\***************************************************************************
\* The characters symbols are made of here, and str.upper on each.
Chars == {"a", "A", "b", "B"}

UpperChar(c) == IF c = "a" THEN "A" ELSE IF c = "b" THEN "B" ELSE c

\* str.upper.
Upper(s) == Series([i \in 1..Len(s) |-> UpperChar(s[i])])

\* st.session_state.get("watchlist", []).
Watchlist(ss) == IF "watchlist" \in DOMAIN ss THEN ss.watchlist ELSE << >>

\* st.session_state["watchlist"] = wl.
SetWatchlist(ss, wl) ==
    [k \in DOMAIN ss \cup {"watchlist"} |->
        IF k = "watchlist" THEN wl ELSE ss[k]]

\* sym in wl.
Contains(wl, sym) == \E i \in 1..Len(wl) : wl[i] = sym

\* st.session_state.setdefault("watchlist", []).
init_watchlist(ss) ==
    IF "watchlist" \in DOMAIN ss THEN ss ELSE SetWatchlist(ss, << >>)

add_to_watchlist(ss, sym_in) ==
    LET sym == Upper(sym_in)
        wl == Watchlist(ss)
    IN  IF sym # << >> /\ ~Contains(wl, sym)
        THEN SetWatchlist(ss, Append(wl, sym))
        ELSE ss

remove_from_watchlist(ss, sym_in) ==
    LET sym == Upper(sym_in)
        wl == Watchlist(ss)
    IN  SetWatchlist(ss, SelectSeq(wl, LAMBDA s : s # sym))

\* JSON values, as json.load returns them: a str, a number, null, a list, a
\* dict; and a file that is not JSON.
JStr(s) == [t |-> "str", chars |-> s]

JNum == [t |-> "num", number |-> 1]

JNull == [t |-> "null", null |-> TRUE]

JList(items) == [t |-> "list", items |-> items]

JDict(fields) == [t |-> "dict", fields |-> fields]

NotJson == [t |-> "invalid", invalid |-> TRUE]

\* What iterating a JSON value yields: the items of a list, the characters
\* of a str; a number and null are not iterable (TypeError).
Iterable(j) == j.t \in {"list", "str"}

Iterate(j) ==
    IF j.t = "list" THEN j.items
    ELSE Series([i \in 1..Len(j.chars) |-> JStr(<<j.chars[i]>>)])

\* [s.upper() for s in items if isinstance(s, str)].
RECURSIVE UpperStrings(_)
UpperStrings(items) ==
    IF items = << >> THEN << >>
    ELSE LET rest == UpperStrings(Tail(items))
         IN  IF Head(items).t = "str" THEN <<Upper(Head(items).chars)>> \o rest
             ELSE rest

\* list(dict.fromkeys(keys)): the first occurrence of every key, in order.
RECURSIVE FromKeys(_, _)
FromKeys(keys, seen) ==
    IF keys = << >> THEN seen
    ELSE FromKeys(Tail(keys),
                  IF Contains(seen, Head(keys)) THEN seen
                  ELSE Append(seen, Head(keys)))

\* What import_watchlist_uploader reports for the uploaded file f: "success"
\* (st.success), "error" (st.error, an exception was caught) or nothing.
ImportOutcome(f) ==
    IF f.t = "invalid" THEN "error"
    ELSE IF f.t # "dict" THEN "none"
    ELSE IF "watchlist" \notin DOMAIN f.fields THEN "none"
    ELSE IF ~Iterable(f.fields.watchlist) THEN "error"
    ELSE "success"

\* import_watchlist_uploader, for an uploaded file f.
import_watchlist_uploader(ss, f) ==
    IF ImportOutcome(f) # "success" THEN ss
    ELSE SetWatchlist(ss, FromKeys(UpperStrings(Iterate(f.fields.watchlist)),
                                   << >>))

\***************************************************************************
\* data.py: fetch, over what yf.download delivers
\***************************************************************************
\* The timeframes of the UI; intraday ones use the raw close and drop the
\* last, partial bar.
TF ==
    [k \in {"1D", "1W", "1M", "3M", "6M", "1Y", "5Y", "Max"} |->
        [intraday |-> k \in {"1D", "1W"}]]

\* An exception with its message.
RaiseMsg(e, m) == [kind |-> "raise", error |-> e, message |-> m]

\* What yf.download delivers: an exception, None, or a frame.
Delivered(f) == [kind |-> "return", none |-> FALSE, frame |-> f]

DeliveredNone == [kind |-> "return", none |-> TRUE, frame |-> NoFrame]

\* str.title on the column names met here.
Title(c) ==
    IF c = "close" THEN "Close"
    ELSE IF c = "adj close" THEN "Adj Close"
    ELSE c

\* df.rename(columns=str.title).
RenameTitle(f) ==
    [f EXCEPT !.cols =
        [c \in {Title(k) : k \in DOMAIN f.cols} |->
            f.cols[CHOOSE k \in DOMAIN f.cols : Title(k) = c]]]

\* df.iloc[:-1].
DropLast(f) ==
    [index |-> SubSeq(f.index, 1, Rows(f) - 1),
     cols |-> [c \in DOMAIN f.cols |-> SubSeq(f.cols[c], 1, Rows(f) - 1)]]

\* fetch(symbol, tf_key), yf.download delivering dl: an exception, or the
\* frame and the name of its price column.
fetch(tf_key, dl) ==
    IF tf_key \notin DOMAIN TF THEN RaiseMsg("KeyError", "Unknown timeframe")
    ELSE IF dl.kind = "raise" THEN dl
    ELSE IF dl.none \/ DfEmpty(dl.frame)
         THEN RaiseMsg("ValueError", "No data returned")
    ELSE LET cfg == TF[tf_key]
             renamed == RenameTitle(dl.frame)
             col == IF cfg.intraday THEN "Close" ELSE "Adj Close"
             cut == IF cfg.intraday /\ Rows(renamed) > 1
                    THEN DropLast(renamed) ELSE renamed
         IN  IF col \notin DOMAIN cut.cols THEN RaiseMsg("KeyError", col)
             ELSE [kind |-> "return",
                   df |-> [cut EXCEPT !.cols =
                              [PriceCol |-> cut.cols[col]] @@ cut.cols],
                   price_col |-> col]

\***************************************************************************
\* app.py: compute_snapshot and display_watchlist_overview
\***************************************************************************
\* str(e).
Message(r) == IF "message" \in DOMAIN r THEN r.message ELSE r.error

\* The value compute_snapshot returns for the frame d with its indicators
\* and the outcome s of latest_snapshot on it.
SnapshotRow(symbol, d, col, s) ==
    IF s.kind = "raise" THEN s
    ELSE [kind |-> "return", symbol |-> symbol, price |-> Iloc(d, col, -1),
          macd |-> s.macd, rsi |-> s.rsi, bb |-> s.bb,
          majority |-> s.majority, time |-> s.index]

\* compute_snapshot after attach_indicators.
SnapshotOfFrame(symbol, d, col) ==
    SnapshotRow(symbol, d, col, latest_snapshot(d, col))

\* compute_snapshot after fetch.
SnapshotOfFetched(symbol, fetched) ==
    IF fetched.kind = "raise" THEN fetched
    ELSE SnapshotOfFrame(symbol,
                         attach_indicators(fetched.df, fetched.price_col,
                                           Defaults),
                         fetched.price_col)

\* compute_snapshot(symbol, tf_key), yf.download delivering dl: the row of
\* the symbol, or the exception that leaves it.
compute_snapshot(symbol, tf_key, dl) ==
    SnapshotOfFetched(symbol, fetch(tf_key, dl))

\* The exceptions met here; all of them derive from Exception.
Exceptions == Errors \cup {"ConnectionError"}

\* A handler for ValueError alone.
CaughtIfValueError(e) == e = "ValueError"

\* except Exception.
Caught(e) == e \in Exceptions

state_dot(state) ==
    IF state = BUY THEN "green" ELSE IF state = SELL THEN "red" ELSE "yellow"

\* errors[sym] = msg on a dict kept as its items in insertion order.
DictSet(d, key, val) ==
    IF \E i \in 1..Len(d) : d[i][1] = key
    THEN Series([i \in 1..Len(d) |->
                    IF d[i][1] = key THEN <<key, val>> ELSE d[i]])
    ELSE Append(d, <<key, val>>)

\* The order of Python's strings: by code point, a prefix first.
CodePoint(c) ==
    IF c = "A" THEN 65 ELSE IF c = "B" THEN 66 ELSE IF c = "a" THEN 97 ELSE 98

RECURSIVE StrLess(_, _)
StrLess(s, t) ==
    IF t = << >> THEN FALSE
    ELSE IF s = << >> THEN TRUE
    ELSE IF Head(s) # Head(t) THEN CodePoint(Head(s)) < CodePoint(Head(t))
    ELSE StrLess(Tail(s), Tail(t))

\* The values of State, as strings, in order: "buy" < "hold" < "sell".
ValueRank(state) == IF state = BUY THEN 1 ELSE IF state = HOLD THEN 2 ELSE 3

\* The order of sort_values(by=["Majority", "Ticker"]).
RowLess(a, b) ==
    \/ ValueRank(a.Majority) < ValueRank(b.Majority)
    \/ a.Majority = b.Majority /\ StrLess(a.Ticker, b.Ticker)

\* The row put into a sorted table, after the rows not above it.
Insert(table, row) ==
    LET k == Cardinality({i \in 1..Len(table) : ~RowLess(row, table[i])})
    IN  SubSeq(table, 1, k) \o <<row>> \o SubSeq(table, k + 1, Len(table))

RECURSIVE SortRows(_)
SortRows(rows) ==
    IF rows = << >> THEN << >>
    ELSE Insert(SortRows(SubSeq(rows, 1, Len(rows) - 1)), rows[Len(rows)])

DisplayRow(row) ==
    [Ticker |-> row.symbol, Price |-> row.price, MACD |-> state_dot(row.macd),
     RSI |-> state_dot(row.rsi), BB |-> state_dot(row.bb),
     Majority |-> row.majority, Time |-> row.time]

\***************************************************************************
\* The session: the watchlist operations of the sidebar and the overview of
\* the watchlist, one script run at a time
\***************************************************************************
\* The longest list an imported file holds here.
MaxImport == 3

\* Symbols as typed or imported; upper-cased they are "", "A", "B", "AB".
SymbolInputs == {<< >>, <<"a">>, <<"A">>, <<"B">>, <<"a", "B">>}

JsonItems == {JStr(s) : s \in SymbolInputs} \cup {JNum}

JsonLists == UNION {[1..n -> JsonItems] : n \in 0..MaxImport}

\* Uploaded files: not JSON, JSON that is no dict, a dict without the key,
\* and dicts whose "watchlist" is a number, null, a str or a list.
Uploads ==
    {NotJson, JList(<<JStr(<<"A">>)>>), JDict([tickers |-> JList(<< >>)]),
     JDict([watchlist |-> JNum]), JDict([watchlist |-> JNull])}
    \cup {JDict([watchlist |-> JStr(s)]) : s \in SymbolInputs}
    \cup {JDict([watchlist |-> JList(l)]) : l \in JsonLists}

\* Timeframe keys: an intraday one, a daily one and one TF has not.
TfKeys == {"1D", "1M", "2D"}

\* A frame as yf.download delivers it, with the given column names.
Downloaded(close_name, adj_name, prices) ==
    [index |-> Series([i \in 1..Len(prices) |-> TimeOf(i - 1)]),
     cols |-> [c \in {close_name, adj_name} |->
                  Series([i \in 1..Len(prices) |-> Num(prices[i])])]]

\* What yf.download may deliver for a symbol: a network error, None, a frame
\* without rows, a frame without adjusted close, and frames of one to three
\* bars.
Downloads ==
    {Raise("ConnectionError"), DeliveredNone,
     Delivered(Downloaded("Close", "Adj Close", << >>)),
     Delivered(Downloaded("Close", "Close", <<10>>)),
     Delivered(Downloaded("Close", "Adj Close", <<10>>)),
     Delivered(Downloaded("close", "adj close", <<10, 11>>)),
     Delivered(Downloaded("Close", "Adj Close", <<11, 10>>)),
     Delivered(Downloaded("Close", "Adj Close", <<11, 10, 11>>))}

InitSession ==
    /\ par = [feed |-> "constant"] @@ Defaults
    /\ df = Fetched(<< >>)
    /\ snap = NoCall
    /\ call = NoCall
    /\ session_state = NoKeys
    /\ overview = Idle

\* A call of a function of storage.py: its arguments, the session state it
\* found and what it reports.
StorageCall(fn, args, result) ==
    [kind |-> "call", fn |-> fn, args |-> args, before |-> session_state,
     result |-> result]

InitWatchlist ==
    /\ call = NoCall
    /\ overview = Idle
    /\ session_state' = init_watchlist(session_state)
    /\ call' = StorageCall("init_watchlist", << >>, "none")
    /\ UNCHANGED <<par, df, snap, overview>>

AddToWatchlist ==
    /\ call = NoCall
    /\ overview = Idle
    /\ \E sym \in SymbolInputs :
           /\ session_state' = add_to_watchlist(session_state, sym)
           /\ call' = StorageCall("add_to_watchlist", <<sym>>, "none")
    /\ UNCHANGED <<par, df, snap, overview>>

RemoveFromWatchlist ==
    /\ call = NoCall
    /\ overview = Idle
    /\ \E sym \in SymbolInputs :
           /\ session_state' = remove_from_watchlist(session_state, sym)
           /\ call' = StorageCall("remove_from_watchlist", <<sym>>, "none")
    /\ UNCHANGED <<par, df, snap, overview>>

ImportWatchlist ==
    /\ call = NoCall
    /\ overview = Idle
    /\ \E f \in Uploads :
           /\ session_state' = import_watchlist_uploader(session_state, f)
           /\ call' = StorageCall("import_watchlist_uploader", <<f>>,
                                  ImportOutcome(f))
    /\ UNCHANGED <<par, df, snap, overview>>

\* display_watchlist_overview starts: it reads the watchlist, and returns at
\* once, with a notice, when the watchlist is empty.
OverviewStart ==
    /\ call = NoCall
    /\ overview = Idle
    /\ \E tf_key \in TfKeys :
           LET watchlist == Watchlist(session_state)
           IN  overview' =
                   [pc |-> IF watchlist = << >> THEN "done" ELSE "loop",
                    info |-> watchlist = << >>, tf_key |-> tf_key,
                    watchlist |-> watchlist, i |-> 1, rows |-> << >>,
                    errors |-> << >>, evaluated |-> << >>, table |-> << >>,
                    warnings |-> << >>]
    /\ UNCHANGED <<par, df, snap, call, session_state>>

\* The loop's state after compute_snapshot for sym ended with r: the row
\* appended, or the exception recorded under sym.
Evaluated(ov, sym, r) ==
    IF r.kind = "return"
    THEN [ov EXCEPT !.rows = Append(@, r), !.evaluated = Append(@, sym),
                    !.i = @ + 1]
    ELSE IF Caught(r.error)
    THEN [ov EXCEPT !.errors = DictSet(@, sym, Message(r)),
                    !.evaluated = Append(@, sym), !.i = @ + 1]
    ELSE [ov EXCEPT !.pc = "raised", !.evaluated = Append(@, sym)]

\* One pass of the loop over the watchlist: compute_snapshot for the symbol
\* at hand, its row appended or its exception recorded.
OverviewEvaluate ==
    /\ overview.pc = "loop"
    /\ overview.i <= Len(overview.watchlist)
    /\ \E dl \in Downloads :
           overview' =
               Evaluated(overview, overview.watchlist[overview.i],
                         compute_snapshot(overview.watchlist[overview.i],
                                          overview.tf_key, dl))
    /\ UNCHANGED <<par, df, snap, call, session_state>>

\* After the loop: the table of the rows, sorted, and a warning per error.
OverviewRender ==
    /\ overview.pc = "loop"
    /\ overview.i > Len(overview.watchlist)
    /\ overview' =
           [overview EXCEPT
               !.pc = "done",
               !.table = SortRows(Series([j \in 1..Len(overview.rows) |->
                                             DisplayRow(overview.rows[j])])),
               !.warnings = overview.errors]
    /\ UNCHANGED <<par, df, snap, call, session_state>>

\* display_watchlist_overview has returned; the script may run again.
OverviewReturn ==
    /\ overview.pc = "done"
    /\ overview' = Idle
    /\ UNCHANGED <<par, df, snap, call, session_state>>

NextSession ==
    \/ Return
    \/ InitWatchlist
    \/ AddToWatchlist
    \/ RemoveFromWatchlist
    \/ ImportWatchlist
    \/ OverviewStart
    \/ OverviewEvaluate
    \/ OverviewRender
    \/ OverviewReturn

SpecSession == InitSession /\ [][NextSession]_vars

\***************************************************************************
\* Properties
\***************************************************************************
IsCall(fn) == call.kind = "call" /\ call.fn = fn

Classifiers == {"macd_state", "rsi_state", "bb_state"}

IsClassifierCall == call.kind = "call" /\ call.fn \in Classifiers

\* At least two of the three states a are x.
TwoOf(a, x) ==
    \/ a[1] = x /\ a[2] = x
    \/ a[1] = x /\ a[3] = x
    \/ a[2] = x /\ a[3] = x

Permutations3 ==
    {<<1, 2, 3>>, <<1, 3, 2>>, <<2, 1, 3>>, <<2, 3, 1>>, <<3, 1, 2>>,
     <<3, 2, 1>>}

\* C1: majority returns BUY exactly when at least two of the three states
\* are BUY, SELL exactly when at least two are SELL and HOLD in every other
\* case, and the same result for every permutation of its arguments.
C1_MajorityRule ==
    IsCall("majority") =>
        LET a == call.args
            r == call.result
        IN  /\ r \in State
            /\ r = BUY <=> TwoOf(a, BUY)
            /\ r = SELL <=> TwoOf(a, SELL)
            /\ r = HOLD <=> ~TwoOf(a, BUY) /\ ~TwoOf(a, SELL)
            /\ \A q \in Permutations3 :
                   majority(a[q[1]], a[q[2]], a[q[3]]) = r

\* One BUY, one SELL and one HOLD give HOLD.
C1_Witness ==
    /\ IsCall("majority")
    /\ call.args = <<BUY, SELL, HOLD>>
    /\ call.result = HOLD

\* C2 as stated: latest_snapshot on a series with zero bars fails with an
\* EmptyInputError, an error kind of its own, and returns no snapshot.
C2_EmptyInputError ==
    (snap # NoCall /\ Rows(df) = 0) =>
        snap.kind = "raise" /\ snap.error = "EmptyInputError"

\* C2, amended: latest_snapshot on a series with zero bars fails with the
\* built-in ValueError and returns no snapshot; no classifier decides the
\* outcome (with or without indicator columns the outcome is the same).
C2_EmptyRaisesValueError ==
    (snap # NoCall /\ Rows(df) = 0) => snap = Raise("ValueError")

\* latest_snapshot was called on an empty frame that has its indicator
\* columns.
C2_Witness == snap # NoCall /\ Rows(df) = 0 /\ Attached

\* C3: on a non-empty frame with its indicator columns latest_snapshot
\* returns the three states of the last bar, index n - 1, their majority and
\* the timestamp key of that bar.
C3_SnapshotOfLastBar ==
    (snap # NoCall /\ Attached /\ Rows(df) >= 1) =>
        LET last == Rows(df) - 1
        IN  /\ snap.kind = "return"
            /\ snap.macd = macd_state(df, last)
            /\ snap.rsi = rsi_state(df, last)
            /\ snap.bb = bb_state(df, last, price_col)
            /\ snap.majority = majority(snap.macd, snap.rsi, snap.bb)
            /\ snap.index = TimeOf(last)

\* A snapshot with majority BUY whose three states all differ from the
\* states of the bar before.
C3_Witness ==
    /\ snap # NoCall
    /\ Attached
    /\ Rows(df) >= 2
    /\ snap.kind = "return"
    /\ snap.majority = BUY
    /\ snap.macd # macd_state(df, Rows(df) - 2)
    /\ snap.bb # bb_state(df, Rows(df) - 2, price_col)

\* The first bar of a frame, as a frame.
OneBar(f) ==
    [index |-> SubSeq(f.index, 1, 1),
     cols |-> [c \in DOMAIN f.cols |-> SubSeq(f.cols[c], 1, 1)]]

AllHold(index) ==
    [kind |-> "return", macd |-> HOLD, rsi |-> HOLD, bb |-> HOLD,
     majority |-> HOLD, index |-> index]

\* C4: each classifier returns HOLD for idx <= 0 whatever the frame holds,
\* also a frame without rows or without the classifier's columns, where
\* every read raises; and latest_snapshot on a frame of one bar returns HOLD
\* for the three indicators and for the majority.
C4_FirstBarHolds ==
    IsClassifierCall =>
        LET f == call.args[1]
            idx == call.args[2]
        IN  /\ idx <= 0 => call.result = HOLD
            /\ Rows(f) >= 1 =>
                   latest_snapshot(OneBar(f), price_col) = AllHold(TimeOf(0))

\* bb_state at bar 0 of a frame whose bar 1 is a BUY.
C4_Witness ==
    /\ IsCall("bb_state")
    /\ call.args[2] = 0
    /\ call.result = HOLD
    /\ bb_state(call.args[1], 1, price_col) = BUY

\* The columns a classifier's indicator family consists of.
Family(fn) ==
    IF fn = "macd_state" THEN {"MACD", "MACD_SIGNAL"}
    ELSE IF fn = "rsi_state" THEN {"RSI"}
    ELSE {"BB_UPPER", "BB_LOWER", call.args[3]}

\* Frame f has all the columns of fn's family, and a not-a-number in one
\* of them, at one of its two bars.
UndefinedInFamily(fn, f) ==
    /\ Family(fn) \subseteq DOMAIN f.cols
    /\ \E c \in Family(fn), i \in 1..2 : f.cols[c][i].k = "nan"

MacdStates == [i \in 0..(Rows(df) - 1) |-> macd_state(df, i)]

ScenarioRun == par.feed = "scenario" /\ Attached /\ Rows(df) = Len(Scenario)

\* The bar of the lowest price, the bar after it, and the first bar whose
\* price is below the bar before it.
TroughBar ==
    CHOOSE i \in 0..(Rows(df) - 1) :
        \A j \in 0..(Rows(df) - 1) : ClosePrices[i + 1] <= ClosePrices[j + 1]

ReboundBar == TroughBar + 1

FirstFallBar ==
    CHOOSE i \in 1..(Rows(df) - 1) :
        /\ ClosePrices[i + 1] < ClosePrices[i]
        /\ \A j \in 1..(i - 1) : ClosePrices[j + 1] >= ClosePrices[j]

MacdCrossesUpAt(i) ==
    crossed_up(Iloc(df, "MACD", i - 1), Iloc(df, "MACD", i),
               Iloc(df, "MACD_SIGNAL", i - 1), Iloc(df, "MACD_SIGNAL", i))

\* C6 as stated: on the scenario prices, with short spans, the bar where the
\* price rebounds from the trough and MACD crosses above its signal line is
\* BUY, and every bar before it is HOLD.
C6_ReboundBuyPriorHold ==
    ScenarioRun =>
        /\ MacdCrossesUpAt(ReboundBar)
        /\ MacdStates[ReboundBar] = BUY
        /\ \A j \in 0..(ReboundBar - 1) : MacdStates[j] = HOLD

\* C6, amended: the rebound bar (bar 6) is BUY; of the bars before it, the
\* first falling bar (bar 4), where MACD leaves its signal line downward from
\* equality, is SELL, and every other one is HOLD.
C6_ReboundBuyAfterSell ==
    ScenarioRun =>
        /\ ReboundBar = 6
        /\ FirstFallBar = 4
        /\ MacdCrossesUpAt(ReboundBar)
        /\ MacdStates[ReboundBar] = BUY
        /\ \A j \in 0..(ReboundBar - 1) :
               MacdStates[j] = IF j = FirstFallBar THEN SELL ELSE HOLD

\* The scenario's eight bars with their indicators, for spans (3, 7, 3).
C6_Witness == ScenarioRun /\ par.fast = 3 /\ par.slow = 7

IsConstantSeries ==
    \A i \in 1..Rows(df) : ClosePrices[i] = ClosePrices[1]

BandIs(b, x) == b.k = "fin" /\ b.a = x /\ IsZero(b.v)

\* C7: on a constant price series longer than the window n, the three bands
\* equal the constant at every bar whose window is full, and bb_state returns
\* HOLD at every bar of the series.
C7_ConstantSeriesHolds ==
    (Attached /\ IsConstantSeries /\ Rows(df) > par.n) =>
        \A i \in 0..(Rows(df) - 1) :
            /\ bb_state(df, i, price_col) = HOLD
            /\ IF i >= par.n - 1
               THEN /\ BandIs(Iloc(df, "BB_UPPER", i), Iloc(df, price_col, 0))
                    /\ Iloc(df, "BB_MID", i) = Iloc(df, price_col, 0)
                    /\ BandIs(Iloc(df, "BB_LOWER", i), Iloc(df, price_col, 0))
               ELSE /\ Iloc(df, "BB_UPPER", i).k = "nan"
                    /\ Iloc(df, "BB_MID", i).k = "nan"
                    /\ Iloc(df, "BB_LOWER", i).k = "nan"

\* A constant series of more than 20 bars under bollinger's defaults.
C7_Witness ==
    /\ Attached
    /\ IsConstantSeries
    /\ par.n = Defaults.n
    /\ par.n_std = Defaults.n_std
    /\ Rows(df) > Defaults.n + 1

\* The k bars before bar idx all have the state of bar idx.
SameRun(s, idx, k) == \A j \in 1..k : s[idx - j + 1] = s[idx + 1]

\* C8: for 0 <= idx < len(s), signal_age(s, idx) is the largest k <= idx such
\* that the k bars before idx have the state of bar idx: 0 at idx = 0 and
\* when bar idx - 1 differs.
C8_SignalAge ==
    (IsCall("signal_age") /\ call.args[2] >= 0
        /\ call.args[2] < Len(call.args[1])) =>
        LET s == call.args[1]
            idx == call.args[2]
            k == call.result
        IN  /\ k \in 0..idx
            /\ SameRun(s, idx, k)
            /\ \A m \in (k + 1)..idx : ~SameRun(s, idx, m)
            /\ idx = 0 => k = 0
            /\ (idx >= 1 /\ s[idx] # s[idx + 1]) => k = 0

\* signal_age([HOLD, HOLD, BUY, BUY, BUY], 4) = 2.
C8_Witness ==
    /\ IsCall("signal_age")
    /\ call.args = << <<HOLD, HOLD, BUY, BUY, BUY>>, 4 >>
    /\ call.result = 2

\* The frame attach_indicators computes from the first i bars alone.
PrefixFrame(i) ==
    attach_indicators(Fetched(SubSeq(ClosePrices, 1, i)), price_col, par)

\* RSI computed from the frame's prices with the price of the last bar
\* replaced by q.
RsiWithLast(q) ==
    rsi(Series([j \in 1..Rows(df) |->
                   IF j = Rows(df) THEN Num(q) ELSE df.cols[price_col][j]]),
        par.period)

IndicatorColumns ==
    {"MACD", "MACD_SIGNAL", "MACD_HIST", "RSI", "BB_UPPER", "BB_MID",
     "BB_LOWER"}

\* C9: the indicator values, the EMAs and the classifier states of the bars
\* before the last are those computed without the last bar (so, every
\* series of the feed being reached bar by bar, those computed from the bars
\* up to each bar alone, whatever bars follow); and the RSI of the last bar
\* does not depend on the last bar's own price.
C9_Causal ==
    (Attached /\ Rows(df) >= 1) =>
        LET n == Rows(df)
            pre == PrefixFrame(n - 1)
            close == df.cols[price_col]
            fast == ema(close, par.fast)
            slow == ema(close, par.slow)
            fast_pre == ema(SubSeq(close, 1, n - 1), par.fast)
            slow_pre == ema(SubSeq(close, 1, n - 1), par.slow)
        IN  /\ \A i \in 1..(n - 1) :
                   /\ \A c \in IndicatorColumns :
                          df.cols[c][i] = pre.cols[c][i]
                   /\ fast[i] = fast_pre[i]
                   /\ slow[i] = slow_pre[i]
                   /\ macd_state(df, i - 1) = macd_state(pre, i - 1)
                   /\ rsi_state(df, i - 1) = rsi_state(pre, i - 1)
                   /\ bb_state(df, i - 1, price_col)
                          = bb_state(pre, i - 1, price_col)
            /\ \A q \in Prices : RsiWithLast(q)[n] = df.cols.RSI[n]

\* A frame whose bar before the last has RSI and bands defined, a BUY or
\* SELL from bb_state, and a last bar of another price.
C9_Witness ==
    /\ Attached
    /\ Rows(df) >= 3
    /\ LET i == Rows(df) - 1
       IN  /\ df.cols.RSI[i].k = "fin"
           /\ df.cols.BB_UPPER[i].k = "fin"
           /\ bb_state(df, i - 1, price_col) # HOLD
           /\ ClosePrices[i + 1] # ClosePrices[i]

\* C10: at every bar where the smoothed average loss is zero RSI is
\* not-a-number (the same choice at every such bar); RSI is nowhere
\* infinite, and wherever it is defined it lies in [0, 100].
C10_RsiGuarded ==
    Attached =>
        LET avg == rsi_avg(df.cols[price_col], par.period)
        IN  \A i \in 1..Rows(df) :
                LET r == df.cols.RSI[i]
                IN  /\ IsZero(avg.loss[i]) => IsNaN(r)
                    /\ r.k \in {"nan", "fin"}
                    /\ r.k = "fin" => FLe(Num(0), r) /\ FLe(r, Num(100))

\* A frame with a bar of zero average loss and positive average gain, where
\* an unguarded division is infinite, and a bar where RSI is strictly between
\* 0 and 100.
C10_Witness ==
    /\ Attached
    /\ LET avg == rsi_avg(df.cols[price_col], par.period)
       IN  \E i \in 1..Rows(df) :
               IsZero(avg.loss[i]) /\ FGt(avg.gain[i], Num(0))
    /\ \E i \in 1..Rows(df) :
           FLt(Num(0), df.cols.RSI[i]) /\ FLt(df.cols.RSI[i], Num(100))

\* The positions of the rows, and of the errors, that belong to symbol sym.
RowsOf(sym) == {j \in 1..Len(overview.rows) : overview.rows[j].symbol = sym}

ErrorsOf(sym) ==
    {j \in 1..Len(overview.errors) : overview.errors[j][1] = sym}

\* C11: while display_watchlist_overview runs and when it is done, no
\* exception has left the loop; compute_snapshot has been called once for
\* each symbol before position i, in watchlist order; each of these symbols
\* has either one row or one entry of the error map, and no other symbol has
\* any; and the run ends only after the last symbol, with a table of all the
\* rows and a warning for every entry of the error map.
C11_BatchEvaluation ==
    overview # Idle =>
        LET watchlist == overview.watchlist
            done == overview.i - 1
        IN  /\ overview.pc \in {"loop", "done"}
            /\ overview.evaluated = SubSeq(watchlist, 1, done)
            /\ \A k \in 1..Len(watchlist) :
                   LET r == Cardinality(RowsOf(watchlist[k]))
                       e == Cardinality(ErrorsOf(watchlist[k]))
                   IN  IF k <= done THEN r + e = 1 ELSE r + e = 0
            /\ Len(overview.rows) + Len(overview.errors) = done
            /\ overview.pc = "done" =>
                   /\ done = Len(watchlist)
                   /\ Len(overview.table) = Len(overview.rows)
                   /\ \A j \in 1..Len(overview.rows) :
                          \E t \in 1..Len(overview.table) :
                              overview.table[t]
                                  = DisplayRow(overview.rows[j])
                   /\ overview.warnings = overview.errors

\* A finished run over three symbols of which the first and the last failed,
\* in different ways, and the second has its row.
C11_Witness ==
    /\ overview # Idle
    /\ overview.pc = "done"
    /\ Len(overview.watchlist) = 3
    /\ Len(overview.rows) = 1
    /\ overview.rows[1].symbol = overview.watchlist[2]
    /\ Len(overview.errors) = 2
    /\ overview.errors[1][1] = overview.watchlist[1]
    /\ overview.errors[2][1] = overview.watchlist[3]
    /\ overview.errors[1][2] # overview.errors[2][2]

\* C12 as stated: attach_indicators and latest_snapshot leave the caller's
\* frame as it was: same bars, same fields, same values.
C12_SeriesUnchanged ==
    [][(LatestSnapshot \/ AttachIndicators) => df' = df]_vars

\* C12, amended: attach_indicators adds the seven indicator columns to the
\* caller's frame (or replaces them) and changes nothing else of it: same
\* bars, same timestamps, and every other column, the prices among them,
\* with the same values; latest_snapshot, and the classifiers it calls,
\* change nothing at all.
C12_OnlyIndicatorColumnsAdded ==
    [][(LatestSnapshot \/ AttachIndicators) =>
          /\ df'.index = df.index
          /\ DOMAIN df.cols \subseteq DOMAIN df'.cols
          /\ DOMAIN df'.cols \subseteq DOMAIN df.cols \cup IndicatorColumns
          /\ \A c \in DOMAIN df.cols \ IndicatorColumns :
                 df'.cols[c] = df.cols[c]
          /\ snap' # NoCall => df' = df]_vars

\* A snapshot was taken of a frame of several bars after attach_indicators
\* gave it its indicator columns, next to the two columns of fetch.
C12_Witness ==
    /\ Attached
    /\ Rows(df) >= 3
    /\ snap # NoCall
    /\ snap.kind = "return"
    /\ DOMAIN df.cols = IndicatorColumns \cup {"Close", "PriceCol"}
    /\ df.cols.PriceCol = df.cols.Close

\* The order of two defined values, as fractions with positive denominators.
Less(a, b) == a.n * b.d < b.n * a.d

AtMost(a, b) == ~Less(b, a)

\* The values at bar 0 and bar 1 of column c of the frame of the call.
Prev(c) == call.args[1].cols[c][1]

Curr(c) == call.args[1].cols[c][2]

\* The call is at idx = 1 of a frame that has the columns cs, all of them
\* defined at both bars.
DefinedCall(fn, cs) ==
    /\ IsCall(fn)
    /\ call.args[2] = 1
    /\ cs \subseteq DOMAIN call.args[1].cols
    /\ \A c \in cs : Prev(c).k = "fin" /\ Curr(c).k = "fin"

\* C13: on defined values macd_state returns BUY exactly when
\* MACD[idx-1] <= SIGNAL[idx-1] and MACD[idx] > SIGNAL[idx], which is
\* crossed_up; SELL exactly when MACD[idx-1] >= SIGNAL[idx-1] and
\* MACD[idx] < SIGNAL[idx], which is crossed_down; HOLD otherwise.  The two
\* conditions never hold together, so that testing SELL first gives the same
\* state, and crossed_down(pa, ca, pb, cb) = crossed_up(pb, cb, pa, ca).
C13_MacdCross ==
    DefinedCall("macd_state", {"MACD", "MACD_SIGNAL"}) =>
        LET pm == Prev("MACD")
            cm == Curr("MACD")
            ps == Prev("MACD_SIGNAL")
            cs == Curr("MACD_SIGNAL")
            up == AtMost(pm, ps) /\ Less(cs, cm)
            down == AtMost(ps, pm) /\ Less(cm, cs)
        IN  /\ crossed_up(pm, cm, ps, cs) = up
            /\ crossed_down(pm, cm, ps, cs) = down
            /\ crossed_down(pm, cm, ps, cs) = crossed_up(ps, cs, pm, cm)
            /\ ~(up /\ down)
            /\ call.result = BUY <=> up
            /\ call.result = SELL <=> down
            /\ call.result = HOLD <=> ~up /\ ~down
            /\ call.result = IF down THEN SELL ELSE IF up THEN BUY ELSE HOLD

\* MACD rises above its signal line from equality with it, a BUY; the same
\* frame with the two columns exchanged is a SELL.
C13_Witness ==
    /\ DefinedCall("macd_state", {"MACD", "MACD_SIGNAL"})
    /\ Prev("MACD") = Prev("MACD_SIGNAL")
    /\ Curr("MACD") = Rat(1, 2)
    /\ Curr("MACD_SIGNAL") = Num(0)
    /\ call.result = BUY
    /\ macd_state(Frame2([MACD |-> call.args[1].cols.MACD_SIGNAL,
                          MACD_SIGNAL |-> call.args[1].cols.MACD]), 1) = SELL

\* RSI goes up through the level t, or down through it.
UpThrough(t) == AtMost(Prev("RSI"), Num(t)) /\ Less(Num(t), Curr("RSI"))

DownThrough(t) == AtMost(Num(t), Prev("RSI")) /\ Less(Curr("RSI"), Num(t))

\* C14: on defined RSI values in [0, 100] rsi_state returns BUY exactly when
\* RSI crosses up through 30 or through 50, SELL exactly when it crosses down
\* through 70 or through 50, HOLD otherwise; no pair of values meets a BUY
\* and a SELL condition, so that testing BUY first hides no SELL.
C14_RsiThresholds ==
    DefinedCall("rsi_state", {"RSI"}) =>
        LET buy == UpThrough(30) \/ UpThrough(50)
            sell == DownThrough(70) \/ DownThrough(50)
        IN  /\ AtMost(Num(0), Prev("RSI")) /\ AtMost(Prev("RSI"), Num(100))
            /\ AtMost(Num(0), Curr("RSI")) /\ AtMost(Curr("RSI"), Num(100))
            /\ ~(buy /\ sell)
            /\ call.result = BUY <=> buy
            /\ call.result = SELL <=> sell
            /\ call.result = HOLD <=> ~buy /\ ~sell

\* RSI leaves 50 upward without reaching 70: a BUY by the midline alone.
C14_Witness ==
    /\ DefinedCall("rsi_state", {"RSI"})
    /\ Prev("RSI") = Num(50)
    /\ Curr("RSI") = Num(60)
    /\ call.result = BUY

\* The value of a band that has no square root in it.
Level(b) == b.a

\* The current price lies within the current bands.
Inside(col) ==
    /\ AtMost(Level(Curr("BB_LOWER")), Curr(col))
    /\ AtMost(Curr(col), Level(Curr("BB_UPPER")))

\* C15: on defined values with BB_LOWER <= BB_UPPER at both bars, bb_state
\* returns BUY exactly when the previous price is strictly below the previous
\* lower band and the current price within the current bands, SELL exactly
\* when the previous price is strictly above the previous upper band and the
\* current price within the current bands, HOLD otherwise: so with a previous
\* price on a band, and with a current price outside the bands.  The price is
\* that of the column named by price_col.
C15_BollingerReentry ==
    (/\ IsCall("bb_state")
     /\ DefinedCall("bb_state", {call.args[3], "BB_LOWER", "BB_UPPER"})
     /\ AtMost(Level(Prev("BB_LOWER")), Level(Prev("BB_UPPER")))
     /\ AtMost(Level(Curr("BB_LOWER")), Level(Curr("BB_UPPER")))) =>
        LET col == call.args[3]
            buy == Less(Prev(col), Level(Prev("BB_LOWER"))) /\ Inside(col)
            sell == Less(Level(Prev("BB_UPPER")), Prev(col)) /\ Inside(col)
        IN  /\ ~(buy /\ sell)
            /\ call.result = BUY <=> buy
            /\ call.result = SELL <=> sell
            /\ call.result = HOLD <=> ~buy /\ ~sell
            /\ Prev(col) = Level(Prev("BB_LOWER")) => call.result = HOLD
            /\ Prev(col) = Level(Prev("BB_UPPER")) => call.result = HOLD
            /\ ~Inside(col) => call.result = HOLD

\* A BUY on the adjusted close, from 1 below the lower band at 2 back to 3,
\* in a frame whose raw close, on the band before, gives HOLD.
C15_Witness ==
    /\ IsCall("bb_state")
    /\ call.args[2] = 1
    /\ call.args[3] = "Adj Close"
    /\ call.args[1] \in BbAdjFrames
    /\ call.args[1].cols["Adj Close"] = <<Num(1), Num(3)>>
    /\ call.args[1].cols["Close"] = <<Num(2), Num(3)>>
    /\ call.result = BUY
    /\ bb_state(call.args[1], 1, "Close") = HOLD

\* A symbol of capital letters only.
IsUpperCased(sym) == \A k \in 1..Len(sym) : sym[k] \in {"A", "B"}

\* Two characters, and two symbols, that differ at most in letter case.
SameLetter(c, d) == c = d \/ {c, d} = {"a", "A"} \/ {c, d} = {"b", "B"}

SameSymbol(s, t) ==
    Len(s) = Len(t) /\ \A k \in 1..Len(s) : SameLetter(s[k], t[k])

\* The symbols of list wl other than sym, in their order.
Without(wl, sym) == SelectSeq(wl, LAMBDA s : ~SameSymbol(s, sym))

\* C16: the watchlist never holds a symbol twice, and holds only non-empty
\* upper-cased symbols; add_to_watchlist of the empty string, or of a symbol
\* the list holds in some letter case, leaves the list as it was, and of any
\* other symbol appends it, upper-cased, after the others in their order;
\* remove_from_watchlist(sym) leaves the other symbols in their order and no
\* sym.
C16_WatchlistInvariant ==
    LET wl == Watchlist(session_state)
        before == Watchlist(call.before)
        sym == call.args[1]
    IN  /\ \A i \in 1..Len(wl) :
               /\ wl[i] # << >>
               /\ IsUpperCased(wl[i])
               /\ \A j \in 1..Len(wl) : wl[i] = wl[j] => i = j
        /\ IsCall("add_to_watchlist") =>
               IF sym = << >> \/ \E i \in 1..Len(before) :
                                     SameSymbol(before[i], sym)
               THEN wl = before
               ELSE /\ Len(wl) = Len(before) + 1
                    /\ SubSeq(wl, 1, Len(before)) = before
                    /\ SameSymbol(wl[Len(wl)], sym)
        /\ IsCall("remove_from_watchlist") =>
               /\ wl = Without(before, sym)
               /\ \A i \in 1..Len(wl) : ~SameSymbol(wl[i], sym)

=============================================================================
